---- MODULE Spec2Model ----
(***************************************************************************)
(* Model of hanSolo.SubscriptionManager (src/hanSolo/__init__.py): the     *)
(* connection lifecycle (start / running / stop / retry), the subscriber   *)
(* list and the dispatch of a received message to the subscribers.         *)
(*                                                                         *)
(* The manager lives on one cooperative asyncio event loop.  A step of the *)
(* model is what runs between two suspension points (awaits) of one        *)
(* coroutine, or one synchronous call of the public interface.  The        *)
(* connection task running() is modelled by its position `pc`:             *)
(*   new      created by start(), first step not yet run                   *)
(*   close0   awaiting websocket.close() of line 64                        *)
(*   connect  awaiting session.ws_connect() of line 67                     *)
(*   receive  awaiting wait_for(websocket.receive(), 30) of line 74        *)
(*   ping     awaiting wait_for(pong_waiter, 10) of line 88                *)
(*   unwind   inside wait_for() of line 74 or 88, which awaits the         *)
(*            cancellation of what it wraps before it raises               *)
(*   callback suspended inside callback(decoded_data) of line 200; a       *)
(*            callback that does not suspend runs within the step that     *)
(*            calls it                                                     *)
(*   closeF   awaiting websocket.close() inside the finally of line 108    *)
(*   none     no such task (never created, finished, or cancelled before   *)
(*            it ran)                                                      *)
(***************************************************************************)
EXTENDS Naturals, Sequences, FiniteSets, TLC

\* ---- program constants ------------------------------------------------
STATE_STARTING == "starting"
STATE_RUNNING == "running"
STATE_STOPPED == "stopped"
\* self._state = None after construction
STATE_NONE == "none"
\* self._wait_time_before_retry
WaitTimeBeforeRetry == 15
\* the idle counter bound of `if k > 10`
MaxIdle == 10

\* ---- bounds of the model ----------------------------------------------
\* task objects that can be alive at once
MaxTasks == 2
\* websocket objects that can be referenced at once
MaxWs == 2
\* timer handles that can be referenced at once
MaxTimers == 2
\* distinct subscriber callbacks
NumCallbacks == 1
\* distinct subscriber callbacks where the dispatch order is looked at
NumDispatchCallbacks == 2
\* largest `timeout` passed to stop(), in polling intervals of 0.1 s
MaxTimeout == 1

None == 0
TaskIds == 1..MaxTasks
WsIds == 1..MaxWs
TimerIds == 1..MaxTimers
Callbacks == 1..NumCallbacks
DispatchCallbacks == 1..NumDispatchCallbacks
Timeouts == 0..MaxTimeout

VARIABLES
    state,          \* self._state
    websocket,      \* self.websocket: None or a websocket object
    retry_timer,    \* self._retry_timer: None or a timer handle
    client_task,    \* self._client_task: None or a task object
    is_running,     \* self._is_running
    subscriptions,  \* self.subscriptions, a list of callbacks
    tasks,          \* the running() coroutines of the event loop
    wsOpen,         \* the websocket objects that are open (not closed)
    timers,         \* the call_later handles that are scheduled
    stopper,        \* the position of the stop() coroutine
    disp,           \* history of the dispatch of the current message
    ahead,          \* the ready queue in front of each cancelled task
    last,           \* history: the step taken last
    proc            \* one message on its way through _process_msg

vars == <<state, websocket, retry_timer, client_task, is_running,
          subscriptions, tasks, wsOpen, timers, stopper, ahead, disp, last,
          proc>>

Range(s) == {s[i] : i \in 1..Len(s)}
Min(S) == CHOOSE x \in S : \A y \in S : x <= y

NoTask == [pc |-> "none", cancel |-> FALSE, open |-> FALSE, late |-> FALSE,
           k |-> 0, h |-> None, idx |-> 0]
At(p, hh, kk, ii) == [pc |-> p, cancel |-> FALSE, open |-> FALSE,
                      late |-> FALSE, k |-> kk, h |-> hh, idx |-> ii]
StopIdle == [pc |-> "idle", h |-> None, timeout |-> 0, elapsed |-> 0]
DispIdle == [phase |-> "idle", task |-> None, log |-> <<>>, must |-> {},
             val |-> "None" :> TRUE]
\* the history of a dispatch that is complete is kept for one step
Settle(d) == IF d.phase = "complete" THEN DispIdle ELSE d
Ev(o, a) == [op |-> o, arg |-> a]
ProcIdle == [stage |-> "idle"]

Init ==
    /\ state = STATE_NONE
    /\ websocket = None
    /\ retry_timer = None
    /\ client_task = None
    /\ is_running = FALSE
    /\ subscriptions = <<>>
    /\ tasks = [t \in TaskIds |-> NoTask]
    /\ wsOpen = {}
    /\ timers = {}
    /\ stopper = StopIdle
    /\ ahead = [t \in TaskIds |-> {}]
    /\ disp = DispIdle
    /\ last = Ev("init", 0)
    /\ proc = ProcIdle

\* ---- the event loop ------------------------------------------------------

Live(t) == tasks[t].pc # "none" /\ ~tasks[t].cancel

\* task.cancel() makes the task ready to run with a CancelledError thrown at
\* the await it is suspended at: its step is appended to the ready queue of
\* the loop.  The loop runs the queue in order, so the handles that were
\* ready when cancel() was called (the wake-up of another task whose await
\* has completed, a timer that is due, the sleep or the close() of stop())
\* run once each before the cancelled task does, and whatever becomes
\* ready later runs after it.  Which handles were ready is not decided by
\* this code: each task that exists, a pending timer and a suspended
\* stop() may have been.  ahead[u] holds the handles that may still run
\* before the cancelled task u.
TimerHandle == MaxTasks + 1
StopHandle == MaxTasks + 2
\* a call of the public interface: not a handle of the loop
UserHandle == MaxTasks + 3

\* the task u has a CancelledError on its way (a task that is unwinding
\* inside wait_for() raises it some turns of the loop later)
Pending(u) == tasks[u].cancel /\ tasks[u].pc \notin {"none", "unwind"}

\* the handle e may run now
MayRun(e) == \A u \in TaskIds : (u # e /\ Pending(u)) => e \in ahead[u]

\* the step of the handle e has run loop.call_later() (line 146): retry()
\* was called by the user or at the end of the finally block (lines 109-112)
\* with a state that is neither Starting nor Running
CallsLater(e) ==
    \/ /\ e = UserHandle
       /\ last'.op = "retry"
       /\ state \notin {STATE_STARTING, STATE_RUNNING}
    \/ /\ e \in TaskIds
       /\ tasks[e].pc # "none" /\ tasks'[e].pc = "none"
       /\ ~(tasks[e].cancel /\ tasks[e].pc \in {"close0", "closeF"})
       /\ state # STATE_STOPPED

\* the handles that exist after the step: a task that has run its first
\* step and has not ended, a timer that was scheduled before this step and
\* is not cancelled, a stop() that is suspended
Handles(e) ==
    {v \in TaskIds : tasks'[v].pc \notin {"none", "new"}}
    \cup (IF timers' # {} /\ ~CallsLater(e) THEN {TimerHandle} ELSE {})
    \cup (IF stopper'.pc # "idle" THEN {StopHandle} ELSE {})

\* the ready queue in front of the cancelled tasks after a step of the
\* handle e: e has run, and a task cancelled in this step has in front of
\* it what may have been ready
AheadAfter(e) ==
    [u \in TaskIds |->
        IF ~(tasks'[u].cancel /\ tasks'[u].pc \notin {"none", "unwind"})
        THEN {}
        ELSE IF Pending(u) THEN (ahead[u] \ {e}) \cap Handles(e)
        ELSE Handles(e) \ {u}]

\* The awaits of lines 74 and 88 are asyncio.wait_for() calls.  When the
\* future that wait_for() wraps has completed (a message was received, the
\* pong arrived) and task.cancel() is called before the task has run again,
\* wait_for() catches the CancelledError and returns the result of the
\* future: the cancellation is lost and the task goes on.  A timeout of
\* wait_for() leaves the future pending, and then the CancelledError is
\* raised.
Swallows(t) == tasks[t].cancel /\ tasks[t].pc \in {"receive", "ping"}

\* wait_for() has caught the CancelledError while the future it wraps was
\* pending: it cancels the future, awaits that, and raises the error
Unwinding(r) == [pc |-> "unwind", cancel |-> TRUE, open |-> FALSE,
                 late |-> FALSE, k |-> 0, h |-> r.h, idx |-> 0]

\* the task t runs again with the result of the future it awaits
Wakes(t) == Live(t) \/ Swallows(t)

\* a message can have been delivered to the task: the transport was open
\* when the task called receive().  A receive() that has completed stays
\* completed when the transport is closed afterwards
CanDeliver(t) == tasks[t].open

\* ---- helpers of the public interface ----------------------------------

\* _cancel_retry_timer: the handle named by the field is cancelled
CancelRetryTimer(tms, rt) == {x \in tms : x.id # rt}

\* _cancel_client_task: task.cancel() on the task named by the field.  A
\* task that has not run its first step never runs (asyncio throws the
\* CancelledError into the unstarted coroutine); any other task gets the
\* CancelledError at the await it is suspended at.
CancelClientTask(ts, ct) ==
    IF ct = None \/ ts[ct].pc = "none" THEN ts
    ELSE IF ts[ct].pc = "new" THEN [ts EXCEPT ![ct] = NoTask]
    ELSE [ts EXCEPT ![ct].cancel = TRUE]

FreeTasks(ts) == {t \in TaskIds : ts[t].pc = "none"}
FreeTimers(tms) == TimerIds \ {x.id : x \in tms}
FreeWs == WsIds \ (wsOpen \cup {websocket, stopper.h} \cup {tasks[t].h : t \in TaskIds})

\* retry() without the state check of line 136
retry_NoGuard(s) ==
    LET left == CancelRetryTimer(timers, retry_timer)
        id == Min(FreeTimers(left))
    IN /\ state' = STATE_STARTING
       /\ retry_timer' = id
       /\ timers' = left \cup {[id |-> id, delay |-> WaitTimeBeforeRetry]}

\* retry(), called with self._state = s
retry(s) ==
    IF s \in {STATE_STARTING, STATE_RUNNING}
    THEN /\ state' = s
         /\ UNCHANGED <<retry_timer, timers>>
    ELSE LET left == CancelRetryTimer(timers, retry_timer)
             id == Min(FreeTimers(left))
         IN /\ state' = STATE_STARTING
            /\ retry_timer' = id
            /\ timers' = left \cup {[id |-> id, delay |-> WaitTimeBeforeRetry]}

\* start() without the state check of line 50
start_NoGuard ==
    LET ts == CancelClientTask(tasks, client_task)
        t == Min(FreeTasks(ts))
    IN /\ FreeTasks(ts) # {}
       /\ state' = STATE_STARTING
       /\ tasks' = [ts EXCEPT ![t] = At("new", None, 0, 0)]
       /\ client_task' = t

\* start()
start ==
    IF state = STATE_RUNNING
    THEN UNCHANGED <<state, tasks, client_task>>
    ELSE LET ts == CancelClientTask(tasks, client_task)
             t == Min(FreeTasks(ts))
         IN /\ FreeTasks(ts) # {}
            /\ state' = STATE_STARTING
            /\ tasks' = [ts EXCEPT ![t] = At("new", None, 0, 0)]
            /\ client_task' = t

\* ---- the public interface, called by the single control thread ---------

UserStart ==
    /\ stopper.pc = "idle"
    /\ start
    /\ last' = Ev("start", 0)
    /\ UNCHANGED <<websocket, retry_timer, is_running, subscriptions, wsOpen,
                   timers, stopper>>
    /\ disp' = Settle(disp)
    /\ UNCHANGED proc
    /\ ahead' = AheadAfter(UserHandle)

UserRetry ==
    /\ stopper.pc = "idle"
    /\ retry(state)
    /\ last' = Ev("retry", 0)
    /\ UNCHANGED <<websocket, client_task, is_running, subscriptions, tasks,
                   wsOpen, stopper>>
    /\ disp' = Settle(disp)
    /\ UNCHANGED proc
    /\ ahead' = AheadAfter(UserHandle)

\* the retry timer fires: loop.call_later(15, self.start)
TimerFire ==
    \E tm \in timers :
        /\ MayRun(TimerHandle)
        /\ timers' = timers \ {tm}
        /\ start
        /\ last' = Ev("timer", 0)
        /\ UNCHANGED <<websocket, retry_timer, is_running, subscriptions,
                       wsOpen, stopper, proc>>
        /\ disp' = Settle(disp)
        /\ ahead' = AheadAfter(TimerHandle)

\* subscribe() without the membership test of line 152
Subscribe_NoCheck(cb) ==
    /\ subscriptions' = Append(subscriptions, cb)
    /\ Len(subscriptions) < NumCallbacks + 1
    /\ last' = Ev("subscribe", cb)
    /\ UNCHANGED <<state, websocket, retry_timer, client_task, is_running,
                   tasks, wsOpen, timers, stopper>>
    /\ disp' = Settle(disp)
    /\ UNCHANGED proc
    /\ ahead' = AheadAfter(UserHandle)

\* subscribe(callback)
Subscribe(cb) ==
    /\ subscriptions' = IF cb \in Range(subscriptions)
                        THEN subscriptions
                        ELSE Append(subscriptions, cb)
    /\ last' = Ev("subscribe", cb)
    /\ UNCHANGED <<state, websocket, retry_timer, client_task, is_running,
                   tasks, wsOpen, timers, stopper>>
    /\ disp' = Settle(disp)
    /\ UNCHANGED proc
    /\ ahead' = AheadAfter(UserHandle)

\* list.remove(x): the first occurrence of x is removed
Remove(s, x) ==
    LET i == Min({j \in 1..Len(s) : s[j] = x})
    IN [j \in 1..(Len(s) - 1) |-> IF j < i THEN s[j] ELSE s[j + 1]]

\* unsubscribe(callback)
Unsubscribe(cb) ==
    /\ subscriptions' = IF cb \notin Range(subscriptions)
                        THEN subscriptions
                        ELSE Remove(subscriptions, cb)
    /\ disp' = [disp EXCEPT !.must = @ \ {cb}]
    /\ last' = Ev("unsubscribe", cb)
    /\ UNCHANGED <<state, websocket, retry_timer, client_task, is_running,
                   tasks, wsOpen, timers, stopper>>
    /\ UNCHANGED proc
    /\ ahead' = AheadAfter(UserHandle)

\* ---- stop(timeout) ----------------------------------------------------

\* the polling loop of stop() without the deadline of line 125
StopWaits_NoDeadline(to, el) ==
    /\ to > 0
    /\ websocket # None
    /\ websocket \in wsOpen

\* the condition of the polling loop of stop(), lines 121-126
StopWaits(to, el) ==
    /\ to > 0
    /\ websocket # None
    /\ websocket \in wsOpen
    /\ el < to

\* lines 129-131 of stop(): _close_websocket(), then _cancel_client_task()
StopClose(to, el) ==
    IF websocket = None
    THEN /\ tasks' = CancelClientTask(tasks, client_task)
         /\ client_task' = None
         /\ stopper' = StopIdle
         /\ last' = Ev("stop_done", 0)
    ELSE /\ stopper' = [pc |-> "close", h |-> websocket, timeout |-> to, elapsed |-> el]
         /\ last' = Ev("stop", 0)
         /\ UNCHANGED <<tasks, client_task>>

\* stop(timeout) is called: lines 117-126, up to its first await
UserStop(to) ==
    /\ stopper.pc = "idle"
    /\ timers' = CancelRetryTimer(timers, retry_timer)
    /\ retry_timer' = None
    /\ state' = STATE_STOPPED
    /\ IF StopWaits(to, 0)
       THEN /\ stopper' = [pc |-> "poll", h |-> None, timeout |-> to, elapsed |-> 0]
            /\ last' = Ev("stop", 0)
            /\ UNCHANGED <<tasks, client_task>>
       ELSE StopClose(to, 0)
    /\ UNCHANGED <<websocket, is_running, subscriptions, wsOpen>>
    /\ disp' = Settle(disp)
    /\ UNCHANGED proc
    /\ ahead' = AheadAfter(UserHandle)

\* asyncio.sleep(0.1) of line 127 returns; the loop condition is read again.
\* The elapsed time is counted in sleeps; the count stops past MaxTimeout,
\* which no stop() with timeout <= MaxTimeout passes.
StopPoll ==
    /\ MayRun(StopHandle)
    /\ stopper.pc = "poll"
    /\ LET el == IF stopper.elapsed > MaxTimeout
                 THEN stopper.elapsed
                 ELSE stopper.elapsed + 1
       IN IF StopWaits(stopper.timeout, el)
          THEN /\ stopper' = [stopper EXCEPT !.elapsed = el]
               /\ last' = Ev("stop", 0)
               /\ UNCHANGED <<tasks, client_task>>
          ELSE StopClose(stopper.timeout, el)
    /\ UNCHANGED <<state, websocket, retry_timer, is_running, subscriptions,
                   wsOpen, timers>>
    /\ disp' = Settle(disp)
    /\ UNCHANGED proc
    /\ ahead' = AheadAfter(StopHandle)

\* websocket.close() awaited by stop() returns: lines 166-168, then 130
StopCloseDone ==
    /\ MayRun(StopHandle)
    /\ stopper.pc = "close"
    /\ wsOpen' = wsOpen \ {stopper.h}
    /\ websocket' = None
    /\ tasks' = CancelClientTask(tasks, client_task)
    /\ client_task' = None
    /\ stopper' = StopIdle
    /\ last' = Ev("stop_done", 0)
    /\ UNCHANGED <<state, retry_timer, is_running, subscriptions, timers>>
    /\ disp' = Settle(disp)
    /\ UNCHANGED proc

\* ---- frames, hexadecimal tokens and the decoder ---------------------------
    /\ ahead' = AheadAfter(StopHandle)

\* the frame delimiter
FEND == 126

\* Python slices of a sequence, with indices counted from 0: s[a:b], s[a:]
Slice(s, a, b) == SubSeq(s, a + 1, IF b < Len(s) THEN b ELSE Len(s))
From(s, a) == SubSeq(s, a + 1, Len(s))

HexChars == <<"0", "1", "2", "3", "4", "5", "6", "7",
              "8", "9", "A", "B", "C", "D", "E", "F">>
DecChars == SubSeq(HexChars, 1, 10)

\* '{:02x}'.format(x).upper() of one byte
HexOfByte(x) == <<HexChars[(x \div 16) + 1], HexChars[(x % 16) + 1]>>

\* ''.join('{:02x}'.format(x).upper() for x in data)
HexOfBytes(data) ==
    [i \in 1..(2 * Len(data)) |-> HexOfByte(data[(i + 1) \div 2])[2 - (i % 2)]]

\* the value of one hexadecimal digit
HexVal(c) == (CHOOSE i \in 1..16 : HexChars[i] = c) - 1

\* int(s, 16) of a string of hexadecimal digits; int('', 16) raises
\* ValueError, which IntFails tells
IntFails(s) == s = <<>>
RECURSIVE HexInt(_)
HexInt(s) ==
    IF s = <<>> THEN 0
    ELSE HexInt(SubSeq(s, 1, Len(s) - 1)) * 16 + HexVal(s[Len(s)])

\* int(s, 16) of up to 8 digits, a number below 2^32: the number is
\* hi * 65536 + lo
HexInt32(s) ==
    IF Len(s) <= 4 THEN [hi |-> 0, lo |-> HexInt(s)]
    ELSE [hi |-> HexInt(SubSeq(s, 1, Len(s) - 4)),
          lo |-> HexInt(SubSeq(s, Len(s) - 3, Len(s)))]

\* base64.b16decode(s): the bytes, defined when B16Fails(s) is false (an
\* odd number of digits raises binascii.Error, a ValueError)
B16Fails(s) == Len(s) % 2 = 1
B16Decode(s) == [i \in 1..(Len(s) \div 2) |-> HexInt(SubSeq(s, 2 * i - 1, 2 * i))]

\* bytes.decode("utf-8") raises UnicodeDecodeError (a ValueError) unless
\* the bytes are well-formed UTF-8
RECURSIVE Utf8Valid(_)
Utf8Valid(b) ==
    LET Cont(i) == i <= Len(b) /\ b[i] \in 128..191
        In(i, lo, hi) == i <= Len(b) /\ b[i] \in lo..hi
    IN IF b = <<>> THEN TRUE
       ELSE IF b[1] < 128 THEN Utf8Valid(From(b, 1))
       ELSE IF b[1] \in 194..223
            THEN Cont(2) /\ Utf8Valid(From(b, 2))
       ELSE IF b[1] = 224
            THEN In(2, 160, 191) /\ Cont(3) /\ Utf8Valid(From(b, 3))
       ELSE IF b[1] \in (225..236) \cup {238, 239}
            THEN Cont(2) /\ Cont(3) /\ Utf8Valid(From(b, 3))
       ELSE IF b[1] = 237
            THEN In(2, 128, 159) /\ Cont(3) /\ Utf8Valid(From(b, 3))
       ELSE IF b[1] = 240
            THEN In(2, 144, 191) /\ Cont(3) /\ Cont(4) /\ Utf8Valid(From(b, 4))
       ELSE IF b[1] \in 241..243
            THEN Cont(2) /\ Cont(3) /\ Cont(4) /\ Utf8Valid(From(b, 4))
       ELSE IF b[1] = 244
            THEN In(2, 128, 143) /\ Cont(3) /\ Cont(4) /\ Utf8Valid(From(b, 4))
       ELSE FALSE

\* base64.b16decode(s).decode("utf-8") raises
TextFails(s) == B16Fails(s) \/ ~Utf8Valid(B16Decode(s))

\* "%02d" % n
RECURSIVE DecStr(_)
DecStr(n) == IF n < 10 THEN <<DecChars[n + 1]>>
             ELSE DecStr(n \div 10) \o <<DecChars[(n % 10) + 1]>>
Fmt02d(n) == IF n < 10 THEN <<"0">> \o DecStr(n) ELSE DecStr(n)

IsDigit(c) == \E i \in 1..10 : DecChars[i] = c
DecVal(c) == (CHOOSE i \in 1..10 : DecChars[i] = c) - 1
RECURSIVE DecInt(_)
DecInt(s) ==
    IF s = <<>> THEN 0
    ELSE DecInt(SubSeq(s, 1, Len(s) - 1)) * 10 + DecVal(s[Len(s)])

\* what one directive of the format '%S%M%H_%d%m%Y' matches (the regular
\* expressions of strptime, for a string g of digits)
DirectiveMatches(dir, g) ==
    LET n == DecInt(g)
    IN /\ \A i \in 1..Len(g) : IsDigit(g[i])
       /\ CASE dir = "S" -> (Len(g) = 2 /\ n <= 61) \/ Len(g) = 1
            [] dir = "M" -> (Len(g) = 2 /\ n <= 59) \/ Len(g) = 1
            [] dir = "H" -> (Len(g) = 2 /\ n <= 23) \/ Len(g) = 1
            [] dir = "d" -> (Len(g) = 2 /\ n \in 1..31) \/ (Len(g) = 1 /\ n >= 1)
            [] dir = "m" -> (Len(g) = 2 /\ n \in 1..12) \/ (Len(g) = 1 /\ n >= 1)
            [] dir = "Y" -> Len(g) = 4

\* the groups of s for the widths w of the five directives before the year
Groups(s, w) ==
    LET p2 == w[1]
        p3 == p2 + w[2]
        p4 == p3 + w[3]
        p5 == p4 + 1 + w[4]
        p6 == p5 + w[5]
    IN [S |-> Slice(s, 0, p2), M |-> Slice(s, p2, p3), H |-> Slice(s, p3, p4),
        sep |-> Slice(s, p4, p4 + 1),
        d |-> Slice(s, p4 + 1, p5), m |-> Slice(s, p5, p6),
        Y |-> Slice(s, p6, p6 + 4), end |-> p6 + 4]

GroupsMatch(s, w) ==
    LET g == Groups(s, w)
    IN /\ Len(g.S) = w[1] /\ DirectiveMatches("S", g.S)
       /\ Len(g.M) = w[2] /\ DirectiveMatches("M", g.M)
       /\ Len(g.H) = w[3] /\ DirectiveMatches("H", g.H)
       /\ g.sep = <<"_">>
       /\ Len(g.d) = w[4] /\ DirectiveMatches("d", g.d)
       /\ Len(g.m) = w[5] /\ DirectiveMatches("m", g.m)
       /\ DirectiveMatches("Y", g.Y)

\* the regular expression tries two digits before one, the first directive
\* varying last: the rank of the widths w in that order
Widths == [1..5 -> {1, 2}]
Rank(w) == (2 - w[1]) * 16 + (2 - w[2]) * 8 + (2 - w[3]) * 4
           + (2 - w[4]) * 2 + (2 - w[5])
FirstMatch(s) ==
    CHOOSE w \in Widths :
        /\ GroupsMatch(s, w)
        /\ \A v \in Widths : GroupsMatch(s, v) => Rank(w) <= Rank(v)

DaysInMonth(y, m) ==
    IF m \in {4, 6, 9, 11} THEN 30
    ELSE IF m # 2 THEN 31
    ELSE IF (y % 4 = 0 /\ y % 100 # 0) \/ y % 400 = 0 THEN 29
    ELSE 28

\* datetime.strptime(date, '%S%M%H_%d%m%Y') raises ValueError: no match,
\* unconverted data remains, or the fields are no date and time
StrptimeFails(s) ==
    \/ ~\E w \in Widths : GroupsMatch(s, w)
    \/ LET g == Groups(s, FirstMatch(s))
       IN \/ g.end # Len(s)
          \/ DecInt(g.S) > 59
          \/ DecInt(g.Y) < 1
          \/ DecInt(g.d) > DaysInMonth(DecInt(g.Y), DecInt(g.m))

\* the datetime that strptime returns
Strptime(s) ==
    LET g == Groups(s, FirstMatch(s))
    IN [year |-> DecInt(g.Y), month |-> DecInt(g.m), day |-> DecInt(g.d),
        hour |-> DecInt(g.H), minute |-> DecInt(g.M), second |-> DecInt(g.S)]

\* line 240: the six numbers formatted for strptime
DateString(buf) ==
    Fmt02d(HexInt(Slice(buf, 18, 20))) \o Fmt02d(HexInt(Slice(buf, 16, 18)))
    \o Fmt02d(HexInt(Slice(buf, 14, 16))) \o <<"_">>
    \o Fmt02d(HexInt(Slice(buf, 10, 12))) \o Fmt02d(HexInt(Slice(buf, 8, 10)))
    \o Fmt02d(HexInt(Slice(buf, 4, 8)))

\* decode_kaifa returns None
NoReading == "None" :> TRUE
\* decode_kaifa raises IndexError
RaisesIndexError == "IndexError" :> TRUE

\* lines 246-267 of decode_kaifa with a type 0E record that keeps the
\* fields it has read when a counter cannot be read
DecodeRecord_Partial(pkt_type, txt_buf, ts) ==
    LET t1 == From(txt_buf, 18)
        t2 == From(t1, 36)
        t3 == From(t2, 20)
        head == ("time_stamp" :> ts)
                @@ ("Version identifier" :> B16Decode(Slice(txt_buf, 4, 18)))
                @@ ("Meter-ID" :> B16Decode(Slice(t1, 4, 36)))
                @@ ("Meter type" :> B16Decode(Slice(t2, 4, 20)))
                @@ ("Effect" :> HexInt32(Slice(t3, 2, 10)))
    IN IF pkt_type = <<"0", "1">>
       THEN ("time_stamp" :> ts) @@ ("Effect" :> HexInt32(Slice(txt_buf, 2, 10)))
       ELSE IF pkt_type \in {<<"0", "9">>, <<"0", "E">>}
       THEN head
       ELSE NoReading

\* lines 246-267 of decode_kaifa: the record of type pkt_type read from
\* txt_buf, with the time stamp ts
DecodeRecord(pkt_type, txt_buf, ts) ==
    LET t1 == From(txt_buf, 18)
        t2 == From(t1, 36)
        t3 == From(t2, 20)
        t4 == From(From(t3, 10), 78)
        t5 == From(t4, 10)
        t6 == From(t5, 10)
        t7 == From(t6, 10)
        Text(s) == B16Decode(s)
        head == ("time_stamp" :> ts)
                @@ ("Version identifier" :> Text(Slice(txt_buf, 4, 18)))
                @@ ("Meter-ID" :> Text(Slice(t1, 4, 36)))
                @@ ("Meter type" :> Text(Slice(t2, 4, 20)))
                @@ ("Effect" :> HexInt32(Slice(t3, 2, 10)))
        headFails == \/ TextFails(Slice(txt_buf, 4, 18))
                     \/ TextFails(Slice(t1, 4, 36))
                     \/ TextFails(Slice(t2, 4, 20))
                     \/ IntFails(Slice(t3, 2, 10))
    IN IF pkt_type = <<"0", "1">>
       THEN IF IntFails(Slice(txt_buf, 2, 10)) THEN NoReading
            ELSE ("time_stamp" :> ts)
                 @@ ("Effect" :> HexInt32(Slice(txt_buf, 2, 10)))
       ELSE IF pkt_type = <<"0", "9">>
       THEN IF headFails THEN NoReading ELSE head
       ELSE IF pkt_type = <<"0", "E">>
       THEN IF \/ headFails
               \/ IntFails(Slice(t4, 2, 10)) \/ IntFails(Slice(t5, 2, 10))
               \/ IntFails(Slice(t6, 2, 10)) \/ IntFails(Slice(t7, 2, 10))
            THEN NoReading
            ELSE head
                 @@ ("Cumulative_hourly_active_import_energy"
                         :> HexInt32(Slice(t4, 2, 10)))
                 @@ ("Cumulative_hourly_active_export_energy"
                         :> HexInt32(Slice(t5, 2, 10)))
                 @@ ("Cumulative_hourly_reactive_import_energy"
                         :> HexInt32(Slice(t6, 2, 10)))
                 @@ ("Cumulative_hourly_reactive_export_energy"
                         :> HexInt32(Slice(t7, 2, 10)))
       ELSE NoReading

\* decode_kaifa(buf)
decode_kaifa(buf) ==
    IF Slice(buf, 10, 12) # <<"1", "0">> THEN NoReading
    ELSE IF HexInt(Slice(buf, 2, 4)) * 2 # Len(buf) THEN NoReading
    ELSE LET b == From(buf, 32)
             txt_buf == From(b, 28)
         IN IF Slice(txt_buf, 0, 2) # <<"0", "2">>
            THEN \* line 230 reads buf[0] for the log
                 IF b = <<>> THEN RaisesIndexError ELSE NoReading
            ELSE IF \/ IntFails(Slice(b, 4, 8)) \/ IntFails(Slice(b, 8, 10))
                    \/ IntFails(Slice(b, 10, 12)) \/ IntFails(Slice(b, 14, 16))
                    \/ IntFails(Slice(b, 16, 18)) \/ IntFails(Slice(b, 18, 20))
                 THEN NoReading
            ELSE IF StrptimeFails(DateString(b)) THEN NoReading
            ELSE DecodeRecord(Slice(txt_buf, 2, 4), From(txt_buf, 4),
                              Strptime(DateString(b)))

\* ---- _process_msg: framing, checksum and the decoder registry ------------

\* a xor b, bit by bit
RECURSIVE BitXor(_, _)
BitXor(a, b) ==
    IF a = 0 THEN b
    ELSE IF b = 0 THEN a
    ELSE ((a + b) % 2) + 2 * BitXor(a \div 2, b \div 2)

\* the reflected form of the polynomial 0x11021
CrcPoly == 33800
\* initCrc = 0xffff; also the mask of `crc ^= 0xffff`
CrcInit == 65535

\* n shifts of the reflected CRC register
RECURSIVE CrcShift(_, _)
CrcShift(c, n) ==
    IF n = 0 THEN c
    ELSE IF c % 2 = 1 THEN CrcShift(BitXor(c \div 2, CrcPoly), n - 1)
    ELSE CrcShift(c \div 2, n - 1)

\* self._crc = crcmod.mkCrcFun(0x11021, rev=True, initCrc=0xffff, xorOut=0):
\* the register after every byte of data in turn, from the initial value
\* (reg[lo, hi, c] is the register after the bytes lo..hi, from c)
Crc(data) ==
    LET reg[lo \in 1..(Len(data) + 1), hi \in 0..Len(data), c \in 0..CrcInit] ==
            IF lo > hi THEN c
            ELSE IF lo = hi THEN CrcShift(BitXor(c, data[lo]), 8)
            ELSE reg[((lo + hi) \div 2) + 1, hi, reg[lo, (lo + hi) \div 2, c]]
    IN reg[1, Len(data), CrcInit]

\* the framing check of lines 177-179
FramingFails(data) ==
    \/ Len(data) < 9
    \/ data[1] # FEND
    \/ data[Len(data)] # FEND

\* line 183: data[1:-1]
Stripped(data) == SubSeq(data, 2, Len(data) - 1)

\* lines 184-186, for the stripped data d: the inverted CRC of d[:-2]
\* differs from the little-endian number in d[-2:]
CrcMismatch(d) ==
    BitXor(Crc(SubSeq(d, 1, Len(d) - 2)), CrcInit)
        # d[Len(d) - 1] + 256 * d[Len(d)]

\* a token stream without the two bytes of the checksum
TokenStream_NoTrailer(d) == HexOfBytes(SubSeq(d, 1, Len(d) - 2))

\* line 189: the token stream handed to the decoders
TokenStream(d) == HexOfBytes(d)

\* self._decoders
Decoders == <<"decode_kaifa">>
ApplyDecoder(decoder, buf) == decode_kaifa(buf)

\* lines 190-195: the default decoder, then every decoder in turn until one
\* returns a reading
RECURSIVE TryDecoders(_, _)
TryDecoders(ds, buf) ==
    IF ds = <<>> THEN NoReading
    ELSE LET d == ApplyDecoder(Head(ds), buf)
         IN IF d # NoReading THEN d ELSE TryDecoders(Tail(ds), buf)
RegistryDecode(buf) ==
    LET d == ApplyDecoder(Decoders[1], buf)
    IN IF d # NoReading THEN d ELSE TryDecoders(Decoders, buf)

\* a received message: msg.type, msg.data and whether msg.data is None
Message(ty, d) == [type |-> ty, data |-> d, nodata |-> FALSE]
MessageNoData(ty) == [type |-> ty, data |-> <<>>, nodata |-> TRUE]

\* _process_msg without the framing check of lines 177-182
ProcessMsg_NoFramingCheck(m) ==
    IF m.nodata THEN [kind |-> "invalid", val |-> NoReading]
    ELSE IF m.type # "BINARY" THEN [kind |-> "text", val |-> NoReading]
    ELSE LET d == RegistryDecode(TokenStream(Stripped(m.data)))
         IN IF d = RaisesIndexError
            THEN [kind |-> "raises", val |-> NoReading]
            ELSE [kind |-> "valid", val |-> d]

\* _process_msg up to the dispatch of line 199, for the message m:
\*   invalid  the message is dropped (lines 174, 182)
\*   text     decoded_data is left unbound (the message is not binary)
\*   raises   a decoder raises
\*   valid    decoded_data = val is handed to the subscribers
ProcessMsg(m) ==
    IF m.nodata THEN [kind |-> "invalid", val |-> NoReading]
    ELSE IF m.type # "BINARY" THEN [kind |-> "text", val |-> NoReading]
    ELSE IF FramingFails(m.data) THEN [kind |-> "invalid", val |-> NoReading]
    ELSE LET d == RegistryDecode(TokenStream(Stripped(m.data)))
         IN IF d = RaisesIndexError
            THEN [kind |-> "raises", val |-> NoReading]
            ELSE [kind |-> "valid", val |-> d]

\* ---- the frames fed to _process_msg ---------------------------------------

\* what a frame is built from: the record type, the control field, the tag
\* of the data, what is added to the length field, the date and time, the
\* number of bytes kept of the payload (0: all of them), the first byte of
\* the texts, whether the trailer matches, and the two delimiters
BaseFrame ==
    [ptype |-> 1, ctrl |-> 16, tag |-> 2, dlen |-> 0,
     date |-> [year |-> 2020, month |-> 2, day |-> 29,
               hour |-> 23, minute |-> 59, second |-> 7],
     keep |-> 0, text |-> 75, crc |-> "good", head |-> FEND, tail |-> FEND]

FrameDates ==
    {BaseFrame.date,
     [BaseFrame.date EXCEPT !.year = 2019],
     [BaseFrame.date EXCEPT !.month = 13],
     [BaseFrame.date EXCEPT !.second = 100]}

FrameChoices ==
    [ptype : {1, 9, 14, 2}, ctrl : {16, 17}, tag : {2, 3}, dlen : {0, 1},
     date : FrameDates, keep : {0, 2, 6, 14, 34, 60, 100}, text : {75, 255},
     crc : {"good", "bad"}, head : {FEND, 125}, tail : {FEND, 125}]

\* the largest number of choices in which a frame differs from BaseFrame
MaxDeviations == 2

Deviations(p) ==
    Cardinality({f \in DOMAIN BaseFrame : p[f] # BaseFrame[f]})

FrameParams == {p \in FrameChoices : Deviations(p) <= MaxDeviations}

Repeat(x, n) == [i \in 1..n |-> x]

\* the payload of a frame, before truncation: 16 bytes of header, 14 bytes
\* with the date and time, the two tags and the record
FramePayload(p) ==
    LET number == <<6, 0, 1, 226, 64>>
        texts == <<9, 7>> \o <<p.text>> \o Repeat(70, 6)
                 \o <<9, 16>> \o Repeat(54, 16)
                 \o <<9, 8>> \o Repeat(77, 8)
    IN <<160, 0, 0, 0, 0, p.ctrl>> \o Repeat(0, 10)
       \o <<9, 12, p.date.year \div 256, p.date.year % 256, p.date.month,
            p.date.day, 6, p.date.hour, p.date.minute, p.date.second,
            255, 128, 0, 0>>
       \o <<p.tag, p.ptype>>
       \o (IF p.ptype \in {9, 14} THEN texts ELSE <<>>)
       \o number
       \o (IF p.ptype = 14
           THEN Repeat(0, 39) \o number \o number \o number \o number
           ELSE <<>>)

\* the frame: the payload, cut and with its length field set, the
\* checksum trailer and the delimiters
Frame(p) ==
    LET full == FramePayload(p)
        kept == IF p.keep = 0 \/ p.keep > Len(full) THEN full
                ELSE SubSeq(full, 1, p.keep)
        body == [kept EXCEPT ![2] = (Len(kept) + 2 + p.dlen) % 256]
        c == BitXor(Crc(body), CrcInit)
        low == IF p.crc = "good" THEN c % 256 ELSE (c + 1) % 256
    IN <<p.head>> \o body \o <<low, c \div 256>> \o <<p.tail>>

\* the messages a connection receives
Messages ==
    <<Message("BINARY", Frame(BaseFrame)),
      Message("BINARY", Frame([BaseFrame EXCEPT !.crc = "bad"])),
      Message("BINARY", Frame([BaseFrame EXCEPT !.ptype = 2])),
      Message("BINARY", Frame([BaseFrame EXCEPT !.keep = 6])),
      Message("BINARY", Frame([BaseFrame EXCEPT !.keep = 2])),
      Message("BINARY", Frame([BaseFrame EXCEPT !.tail = 125])),
      Message("TEXT", <<104, 105>>),
      MessageNoData("CLOSING"),
      Message("BINARY", Frame([BaseFrame EXCEPT !.head = 125])),
      Message("BINARY", Frame([BaseFrame EXCEPT !.keep = 34, !.crc = "bad"]))>>
MessageIds == 1..Len(Messages)

\* what _process_msg makes of each of them
Processed == [m \in MessageIds |-> ProcessMsg(Messages[m])]

\* ---- the connection task: running() ------------------------------------

Goto(t, p, hh, kk, ii) == tasks' = [tasks EXCEPT ![t] = At(p, hh, kk, ii)]
\* the dispatch history is dropped when the dispatching task moves on
DispAfter(t) == IF disp.task = t THEN DispIdle ELSE Settle(disp)

\* the end of the finally block without the retry() of line 112
EndOfFinally_NoRetry(t) ==
    /\ tasks' = [tasks EXCEPT ![t] = NoTask]
    /\ state' = STATE_STOPPED
    /\ UNCHANGED <<retry_timer, timers>>

\* lines 109-113: the end of the finally block
EndOfFinally(t) ==
    /\ tasks' = [tasks EXCEPT ![t] = NoTask]
    /\ IF state # STATE_STOPPED
       THEN retry(STATE_STOPPED)
       ELSE UNCHANGED <<state, retry_timer, timers>>

\* lines 105-108: the try block is left (return, end of loop or exception)
\* and the finally block calls _close_websocket()
Finally(t) ==
    IF websocket = None
    THEN EndOfFinally(t)
    ELSE /\ Goto(t, "closeF", websocket, 0, 0)
         /\ UNCHANGED <<state, retry_timer, timers>>

\* another task is waiting in receive() of the websocket w
HasReader(t, w) ==
    \E u \in TaskIds \ {t} : tasks[u].pc = "receive" /\ tasks[u].h = w

\* lines 72-74: the loop condition, then the call of websocket.receive();
\* with self.websocket = None that call raises AttributeError.  The task
\* is late when another task waits in receive() of the same websocket.
LoopTop(t, kk) ==
    IF state = STATE_RUNNING /\ websocket # None
    THEN /\ tasks' = [tasks EXCEPT ![t] =
                         [At("receive", websocket, kk, 0)
                             EXCEPT !.late = HasReader(t, websocket),
                                    !.open = websocket \in wsOpen]]
         /\ UNCHANGED <<state, retry_timer, timers>>
    ELSE Finally(t)

\* lines 74 and 88: the cancelled task runs, wait_for() catches the
\* CancelledError while the future it wraps is pending, cancels the future
\* and awaits that
Unwind(t) ==
    /\ MayRun(t)
    /\ Swallows(t)
    /\ tasks' = [tasks EXCEPT ![t] = Unwinding(tasks[t])]
    /\ last' = Ev("unwind", 0)
    /\ disp' = DispAfter(t)
    /\ UNCHANGED <<state, websocket, retry_timer, client_task, is_running,
                   subscriptions, wsOpen, timers, stopper>>
    /\ UNCHANGED proc
    /\ ahead' = AheadAfter(t)

\* the first step of the task: line 64.  The step of a task cancelled
\* before this one was created is in front of it in the ready queue: a
\* task cancelled at a plain await has had its CancelledError, and a task
\* cancelled inside wait_for() has gone on with the result of a completed
\* future, or else wait_for() has begun to unwind
TaskStart(t) ==
    /\ \A u \in TaskIds : Pending(u) => Swallows(u)
    /\ tasks[t].pc = "new"
    /\ tasks' = [u \in TaskIds |->
                     IF u = t
                     THEN IF websocket = None THEN At("connect", None, 0, 0)
                          ELSE At("close0", websocket, 0, 0)
                     ELSE IF Swallows(u) THEN Unwinding(tasks[u])
                     ELSE tasks[u]]
    /\ last' = Ev("task_start", 0)
    /\ UNCHANGED <<state, websocket, retry_timer, client_task, is_running,
                   subscriptions, wsOpen, timers, stopper>>
    /\ disp' = Settle(disp)
    /\ UNCHANGED proc
    /\ ahead' = AheadAfter(t)

\* websocket.close() of line 64 returns: line 168, then line 67
Close0Done(t) ==
    /\ tasks[t].pc = "close0" /\ Live(t)
    /\ MayRun(t)
    /\ wsOpen' = wsOpen \ {tasks[t].h}
    /\ websocket' = None
    /\ Goto(t, "connect", None, 0, 0)
    /\ last' = Ev("closed", 0)
    /\ UNCHANGED <<state, retry_timer, client_task, is_running,
                   subscriptions, timers, stopper>>
    /\ disp' = Settle(disp)
    /\ UNCHANGED proc
    /\ ahead' = AheadAfter(t)

\* ws_connect() returns a websocket: lines 67-74
ConnectOk(t) ==
    /\ tasks[t].pc = "connect" /\ Live(t)
    /\ MayRun(t)
    /\ FreeWs # {}
    /\ LET w == Min(FreeWs)
       IN /\ websocket' = w
          /\ wsOpen' = wsOpen \cup {w}
          /\ tasks' = [tasks EXCEPT ![t] =
                          [At("receive", w, 0, 0) EXCEPT !.open = TRUE]]
    /\ state' = STATE_RUNNING
    /\ last' = Ev("connected", 0)
    /\ UNCHANGED <<retry_timer, client_task, is_running, subscriptions,
                   timers, stopper>>
    /\ disp' = Settle(disp)
    /\ UNCHANGED proc
    /\ ahead' = AheadAfter(t)

\* ws_connect() raises: lines 105-113
ConnectFail(t) ==
    /\ tasks[t].pc = "connect" /\ Live(t)
    /\ MayRun(t)
    /\ Finally(t)
    /\ last' = Ev("connect_failed", 0)
    /\ UNCHANGED <<websocket, client_task, is_running, subscriptions, wsOpen,
                   stopper>>
    /\ disp' = Settle(disp)
    /\ UNCHANGED proc
    /\ ahead' = AheadAfter(t)

\* the receive times out after 30 s: lines 75-88
RecvTimeout(t) ==
    /\ tasks[t].pc = "receive" /\ Live(t)
    /\ MayRun(t)
    /\ tasks[t].h \in wsOpen
    /\ LET kk == tasks[t].k + 1
       IN IF kk > MaxIdle
          THEN /\ is_running' = FALSE
               /\ Finally(t)
               /\ last' = Ev("idle_exhausted", 0)
          ELSE /\ IF websocket = None
                  THEN Finally(t)
                  ELSE /\ Goto(t, "ping", websocket, kk, 0)
                       /\ UNCHANGED <<state, retry_timer, timers>>
               /\ last' = Ev("recv_timeout", 0)
               /\ UNCHANGED is_running
    /\ disp' = DispAfter(t)
    /\ UNCHANGED <<websocket, client_task, subscriptions, wsOpen, stopper>>
    /\ UNCHANGED proc
    /\ ahead' = AheadAfter(t)

\* an answered ping that resets the idle counter
PingOk_ResetsCounter(t) ==
    /\ tasks[t].pc = "ping" /\ Wakes(t)
    /\ MayRun(t)
    /\ LoopTop(t, 0)
    /\ last' = Ev("pong", 0)
    /\ UNCHANGED <<websocket, client_task, is_running, subscriptions, wsOpen,
                   stopper>>
    /\ disp' = Settle(disp)
    /\ UNCHANGED proc
    /\ ahead' = AheadAfter(t)

\* the pong arrives within 10 s: line 97, continue
PingOk(t) ==
    /\ tasks[t].pc = "ping" /\ Wakes(t)
    /\ MayRun(t)
    /\ LoopTop(t, tasks[t].k)
    /\ last' = Ev("pong", 0)
    /\ UNCHANGED <<websocket, client_task, is_running, subscriptions, wsOpen,
                   stopper>>
    /\ disp' = Settle(disp)
    /\ UNCHANGED proc
    /\ ahead' = AheadAfter(t)

\* no pong within 10 s: lines 89-96
PingTimeout(t) ==
    /\ tasks[t].pc = "ping" /\ Live(t)
    /\ MayRun(t)
    /\ is_running' = FALSE
    /\ Finally(t)
    /\ last' = Ev("ping_timeout", 0)
    /\ UNCHANGED <<websocket, client_task, subscriptions, wsOpen, stopper>>
    /\ disp' = Settle(disp)
    /\ UNCHANGED proc
    /\ ahead' = AheadAfter(t)

\* line 74: wait_for() runs receive() as a task of its own, in a later turn
\* of the loop.  What receive() does for a late caller is the transport's
\* choice: it serves both callers, or it raises (aiohttp: RuntimeError,
\* concurrent call to receive()), and the exception ends the loop (lines
\* 105-108).
RecvRefused(t) ==
    /\ tasks[t].pc = "receive" /\ Wakes(t)
    /\ MayRun(t)
    /\ tasks[t].late /\ HasReader(t, tasks[t].h)
    /\ Finally(t)
    /\ last' = Ev("recv_refused", 0)
    /\ disp' = DispAfter(t)
    /\ UNCHANGED <<websocket, client_task, is_running, subscriptions, wsOpen,
                   stopper>>
    /\ UNCHANGED proc
    /\ ahead' = AheadAfter(t)

\* a message of type closed or error is received (the peer closed the
\* transport, or the transport failed): lines 98-100
RecvClosed(t) ==
    /\ tasks[t].pc = "receive" /\ Wakes(t)
    /\ MayRun(t)
    /\ wsOpen' = wsOpen \ {tasks[t].h}
    /\ Finally(t)
    /\ last' = Ev("msg_closed", 0)
    /\ disp' = DispAfter(t)
    /\ UNCHANGED <<websocket, client_task, is_running, subscriptions, stopper>>
    /\ UNCHANGED proc
    /\ ahead' = AheadAfter(t)

\* what _process_msg makes of a message that is neither closed nor error
MsgKinds == {"valid", "invalid", "text", "raises"}

\* what a callback that is awaited does when it is called: it returns or
\* raises without suspending, or it suspends the task
CallbackOutcomes == {"suspend", "raise"}

\* how many callbacks can return without suspending when the loop of line
\* 199 goes on at the index i of the list
Returning(i) ==
    0..(IF i > Len(subscriptions) THEN 0 ELSE Len(subscriptions) - i + 1)

\* lines 199-200 from the index i of the list on, in one step of the task
\* t: an await of a callback that does not suspend goes on in the same
\* step.  n callbacks return without suspending; then the list has ended
\* (line 104 and the loop condition follow), or the next callback suspends
\* the task, or it raises (lines 105-113).  out is what that callback does;
\* when the list has ended there is none, and out is held at one value.
\* A list iterator holds an index into the live list.  d is the history of
\* the dispatch so far.
DispatchFrom(t, h, i, n, out, d) ==
    LET j == i + n
        called == IF i > Len(subscriptions) THEN <<>>
                  ELSE SubSeq(subscriptions, i,
                              IF j > Len(subscriptions)
                              THEN Len(subscriptions) ELSE j)
        mine == d.task = t
        logged == [d EXCEPT !.log = @ \o called]
    IN IF j > Len(subscriptions)
       THEN /\ out = "suspend"
            /\ LoopTop(t, 0)
            /\ disp' = IF mine THEN [logged EXCEPT !.phase = "complete"]
                       ELSE Settle(d)
       ELSE IF out = "suspend"
       THEN /\ Goto(t, "callback", h, 0, j)
            /\ disp' = IF mine THEN logged ELSE d
            /\ UNCHANGED <<state, retry_timer, timers>>
       ELSE /\ Finally(t)
            /\ disp' = IF mine THEN DispIdle ELSE Settle(d)

\* a callback has raised in the step that DispatchFrom describes
Raised(i, n, out) == i + n <= Len(subscriptions) /\ out = "raise"

\* the message Messages[m] is received: lines 101-104 and _process_msg up to
\* the first callback that suspends.  A message that is not binary leaves
\* decoded_data unbound, so line 200 raises UnboundLocalError as soon as
\* there is a subscriber to call; an exception of a decoder leaves
\* _process_msg too.
Received(t, m, done) ==
    LET kind == done.kind
        fails == kind = "raises" \/ (kind = "text" /\ subscriptions # <<>>)
        calls == kind = "valid" /\ subscriptions # <<>>
    IN
    /\ tasks[t].pc = "receive" /\ Wakes(t)
    /\ CanDeliver(t)
    /\ MayRun(t)
    /\ is_running' = TRUE
    /\ IF calls
       THEN \E n \in Returning(1), out \in CallbackOutcomes :
                /\ DispatchFrom(t, tasks[t].h, 1, n, out,
                                [phase |-> "active", task |-> t, log |-> <<>>,
                                 must |-> Range(subscriptions),
                                 val |-> done.val])
                /\ last' = IF Raised(1, n, out) THEN Ev("cb_raise", 0)
                           ELSE Ev("msg", m)
       ELSE /\ IF fails
               THEN /\ Finally(t)
                    /\ disp' = DispAfter(t)
               ELSE /\ LoopTop(t, 0)
                    /\ disp' = IF kind = "valid"
                               THEN [phase |-> "complete", task |-> t,
                                     log |-> <<>>, must |-> {},
                                     val |-> done.val]
                               ELSE DispAfter(t)
            /\ last' = IF fails THEN Ev("msg_error", m) ELSE Ev("msg", m)
    /\ UNCHANGED <<websocket, client_task, subscriptions, wsOpen, stopper>>
    /\ UNCHANGED proc
    /\ ahead' = AheadAfter(t)

\* lines 101-104 for the message m of the server
RecvMsg(t, m) == Received(t, m, Processed[m])

\* the callback that suspended the task returns: the for loop of line 199
\* goes on with the next element of the list
CallbackReturn(t) ==
    /\ tasks[t].pc = "callback" /\ Live(t)
    /\ MayRun(t)
    /\ \E n \in Returning(tasks[t].idx + 1), out \in CallbackOutcomes :
           /\ DispatchFrom(t, tasks[t].h, tasks[t].idx + 1, n, out, disp)
           /\ last' = IF Raised(tasks[t].idx + 1, n, out)
                      THEN Ev("cb_raise", 0)
                      ELSE Ev("cb_return", 0)
    /\ UNCHANGED <<websocket, client_task, is_running, subscriptions,
                   wsOpen, stopper>>
    /\ UNCHANGED proc
    /\ ahead' = AheadAfter(t)

\* the callback that suspended the task raises: lines 105-113
CallbackRaise(t) ==
    /\ tasks[t].pc = "callback" /\ Live(t)
    /\ MayRun(t)
    /\ Finally(t)
    /\ disp' = DispAfter(t)
    /\ last' = Ev("cb_raise", 0)
    /\ UNCHANGED <<websocket, client_task, is_running, subscriptions,
                   wsOpen, stopper>>
    /\ UNCHANGED proc
    /\ ahead' = AheadAfter(t)

\* websocket.close() of the finally block returns: line 168, lines 109-113
CloseFDone(t) ==
    /\ tasks[t].pc = "closeF" /\ Live(t)
    /\ MayRun(t)
    /\ wsOpen' = wsOpen \ {tasks[t].h}
    /\ websocket' = None
    /\ EndOfFinally(t)
    /\ last' = Ev("closed", 0)
    /\ UNCHANGED <<client_task, is_running, subscriptions, stopper>>
    /\ disp' = Settle(disp)
    /\ UNCHANGED proc
    /\ ahead' = AheadAfter(t)

\* the CancelledError of task.cancel() is thrown at the await the task is
\* suspended at.  Inside the try block it runs the finally block; inside
\* _close_websocket() it runs line 168 and leaves running(): line 64 is
\* outside the try block, and in the finally block lines 109-113 are
\* skipped.  Whether the interrupted close() closed the transport is not
\* decided by this code.
Cancelled(t) ==
    /\ tasks[t].pc # "none" /\ tasks[t].cancel
    /\ MayRun(t)
    /\ IF tasks[t].pc \in {"close0", "closeF"}
       THEN /\ websocket' = None
            /\ wsOpen' \in {wsOpen, wsOpen \ {tasks[t].h}}
            /\ tasks' = [tasks EXCEPT ![t] = NoTask]
            /\ UNCHANGED <<state, retry_timer, timers>>
       ELSE /\ Finally(t)
            /\ UNCHANGED <<websocket, wsOpen>>
    /\ disp' = DispAfter(t)
    /\ last' = Ev("cancelled", 0)
    /\ UNCHANGED <<client_task, is_running, subscriptions, stopper>>
    /\ UNCHANGED proc
    /\ ahead' = AheadAfter(t)

\* ---- the specification --------------------------------------------------

\* The user calls start(), stop(), subscribe() and unsubscribe(); retry()
\* is called by the timer of line 146 and by the finally block of
\* running().  A call of retry() by the user is a step of NextFair and of
\* NextOverlap.
Next ==
    \/ UserStart
    \/ TimerFire
    \/ \E to \in Timeouts : UserStop(to)
    \/ StopPoll
    \/ StopCloseDone
    \/ \E cb \in Callbacks : Subscribe(cb)
    \/ \E cb \in Callbacks : Unsubscribe(cb)
    \/ \E t \in TaskIds : TaskStart(t)
    \/ \E t \in TaskIds : Unwind(t)
    \/ \E t \in TaskIds : ConnectOk(t)
    \/ \E t \in TaskIds : ConnectFail(t)
    \/ \E t \in TaskIds : RecvRefused(t)
    \/ \E t \in TaskIds : RecvTimeout(t)
    \/ \E t \in TaskIds : PingOk(t)
    \/ \E t \in TaskIds : PingTimeout(t)
    \/ \E t \in TaskIds : RecvClosed(t)
    \/ \E t \in TaskIds, m \in MessageIds : RecvMsg(t, m)
    \/ \E t \in TaskIds : CallbackReturn(t)
    \/ \E t \in TaskIds : CallbackRaise(t)
    \/ \E t \in TaskIds : CloseFDone(t)
    \/ \E t \in TaskIds : Cancelled(t)

Spec == Init /\ [][Next]_vars

\* The user registers and removes the subscribers before start() is first
\* called, and calls retry() as well; everything else is as in Next.
NextFair ==
    \/ UserStart
    \/ UserRetry
    \/ TimerFire
    \/ \E to \in Timeouts : UserStop(to)
    \/ StopPoll
    \/ StopCloseDone
    \/ \E cb \in Callbacks : state = STATE_NONE /\ Subscribe(cb)
    \/ \E cb \in Callbacks : state = STATE_NONE /\ Unsubscribe(cb)
    \/ \E t \in TaskIds : TaskStart(t)
    \/ \E t \in TaskIds : Unwind(t)
    \/ \E t \in TaskIds : ConnectOk(t)
    \/ \E t \in TaskIds : ConnectFail(t)
    \/ \E t \in TaskIds : RecvRefused(t)
    \/ \E t \in TaskIds : RecvTimeout(t)
    \/ \E t \in TaskIds : PingOk(t)
    \/ \E t \in TaskIds : PingTimeout(t)
    \/ \E t \in TaskIds : RecvClosed(t)
    \/ \E t \in TaskIds, m \in MessageIds : RecvMsg(t, m)
    \/ \E t \in TaskIds : CallbackReturn(t)
    \/ \E t \in TaskIds : CallbackRaise(t)
    \/ \E t \in TaskIds : CloseFDone(t)
    \/ \E t \in TaskIds : Cancelled(t)

\* The event loop runs every callback that is ready and every timer that
\* is due, an asyncio.sleep() returns, and a websocket.close() returns.
\* Nothing makes the user call, the peer send or a connect complete.
SpecFair ==
    /\ Init /\ [][NextFair]_vars
    /\ WF_vars(TimerFire)
    /\ WF_vars(StopPoll)
    /\ WF_vars(StopCloseDone)
    /\ WF_vars(\E t \in TaskIds : TaskStart(t))
    /\ WF_vars(\E t \in TaskIds : CloseFDone(t))
    /\ WF_vars(\E t \in TaskIds : Cancelled(t))

\* The public methods are called by one control thread (no call while
\* stop() is suspended), and then self.websocket is None whenever a task
\* runs its first step: the close of line 64 has nothing to close.  It
\* has when start() is called while stop() is suspended.
OverlapStart ==
    /\ stopper.pc # "idle"
    /\ start
    /\ last' = Ev("start", 0)
    /\ UNCHANGED <<websocket, retry_timer, is_running, subscriptions, wsOpen,
                   timers, stopper>>
    /\ disp' = Settle(disp)
    /\ UNCHANGED proc
    /\ ahead' = AheadAfter(UserHandle)

NextOverlap ==
    \/ Next
    \/ UserRetry
    \/ OverlapStart
    \/ \E t \in TaskIds : Close0Done(t)

SpecOverlap == Init /\ [][NextOverlap]_vars

\* The dispatch of messages (lines 98-103 and 199-200) to several
\* subscribers: a client that is started, stopped with stop(0) and
\* restarted, on connections whose peer sends before 30 s have passed.
NextDispatch ==
    \/ UserStart
    \/ TimerFire
    \/ UserStop(0)
    \/ StopCloseDone
    \/ \E cb \in DispatchCallbacks : Subscribe(cb)
    \/ \E cb \in DispatchCallbacks : Unsubscribe(cb)
    \/ \E t \in TaskIds : TaskStart(t)
    \/ \E t \in TaskIds : Unwind(t)
    \/ \E t \in TaskIds : ConnectOk(t)
    \/ \E t \in TaskIds : ConnectFail(t)
    \/ \E t \in TaskIds : RecvRefused(t)
    \/ \E t \in TaskIds : RecvClosed(t)
    \/ \E t \in TaskIds, m \in MessageIds : RecvMsg(t, m)
    \/ \E t \in TaskIds : CallbackReturn(t)
    \/ \E t \in TaskIds : CallbackRaise(t)
    \/ \E t \in TaskIds : CloseFDone(t)
    \/ \E t \in TaskIds : Cancelled(t)

SpecDispatch == Init /\ [][NextDispatch]_vars

\* ---- one frame on its way through _process_msg ----------------------------

lifecycle == <<state, websocket, retry_timer, client_task, is_running,
               subscriptions, tasks, wsOpen, timers, stopper, ahead, disp,
               last>>

\* _process_msg is called with a binary message whose data is the frame f
ProcReceived(f) ==
    [stage |-> "received", frame |-> f, data |-> f, mismatch |-> FALSE,
     buf |-> <<>>, decoded_data |-> NoReading]

InitDecode ==
    /\ state = STATE_NONE
    /\ websocket = None
    /\ retry_timer = None
    /\ client_task = None
    /\ is_running = FALSE
    /\ subscriptions = <<>>
    /\ tasks = [t \in TaskIds |-> NoTask]
    /\ wsOpen = {}
    /\ timers = {}
    /\ stopper = StopIdle
    /\ ahead = [t \in TaskIds |-> {}]
    /\ disp = DispIdle
    /\ last = Ev("init", 0)
    /\ proc \in {ProcReceived(Frame(p)) : p \in FrameParams}

\* lines 177-187: the framing check; the delimiters are stripped and the
\* checksum is compared (a mismatch is logged)
FrameCheck ==
    /\ proc.stage = "received"
    /\ proc' = IF FramingFails(proc.data)
               THEN [proc EXCEPT !.stage = "dropped"]
               ELSE [proc EXCEPT !.stage = "framed",
                                 !.data = Stripped(proc.data),
                                 !.mismatch = CrcMismatch(Stripped(proc.data))]
    /\ UNCHANGED lifecycle

\* line 189: the token stream
Tokenize ==
    /\ proc.stage = "framed"
    /\ proc' = [proc EXCEPT !.stage = "tokens", !.buf = TokenStream(proc.data)]
    /\ UNCHANGED lifecycle

\* lines 190-196: the decoders
Decode ==
    /\ proc.stage = "tokens"
    /\ LET d == RegistryDecode(proc.buf)
       IN proc' = IF d = RaisesIndexError
                  THEN [proc EXCEPT !.stage = "raised"]
                  ELSE [proc EXCEPT !.stage = "decoded", !.decoded_data = d]
    /\ UNCHANGED lifecycle

NextDecode ==
    \/ FrameCheck
    \/ Tokenize
    \/ Decode

SpecDecode == InitDecode /\ [][NextDecode]_vars

\* ---- properties ----------------------------------------------------------

NoDuplicates(s) == \A i, j \in 1..Len(s) : s[i] = s[j] => i = j

\* C1: a call of start() (by the user or by the retry timer) that finds the
\* state Running creates no task, cancels no task and leaves the state
\* Running.
C1_StartWhileRunningIsNoOp ==
    [][(last'.op \in {"start", "timer"} /\ state = STATE_RUNNING)
        => /\ state' = STATE_RUNNING
           /\ tasks' = tasks
           /\ client_task' = client_task
           /\ websocket' = websocket
           /\ retry_timer' = retry_timer]_vars

\* start() was called while the connection task was receiving in state
\* Running
C1_Witness ==
    /\ last.op = "start"
    /\ state = STATE_RUNNING
    /\ \E t \in TaskIds : tasks[t].pc = "receive" /\ client_task = t

\* C2: a call of retry() in state Starting or Running changes neither the
\* state nor the retry timer; a call in any other state (Stopped, or the
\* unset state before the first start) leaves exactly one timer scheduled,
\* with the delay of 15 seconds, and named by the field.
C2_RetryOnlyWhenStopped ==
    [][last'.op = "retry"
        => IF state \in {STATE_STARTING, STATE_RUNNING}
           THEN UNCHANGED <<state, retry_timer, timers, tasks, client_task>>
           ELSE /\ retry_timer' # None
                /\ timers' = {[id |-> retry_timer', delay |-> 15]}
                /\ UNCHANGED <<tasks, client_task>>]_vars

\* retry() was called in state Running and scheduled nothing
C2_Witness ==
    /\ last.op = "retry"
    /\ state = STATE_RUNNING
    /\ timers = {}

\* stop() has taken effect: Stopped, no timer, no transport, no task that is
\* connecting or receiving
StoppedQuiet ==
    /\ state = STATE_STOPPED
    /\ timers = {}
    /\ websocket = None
    /\ wsOpen = {}
    /\ client_task = None
    /\ \A t \in TaskIds : ~Live(t)

\* C3: when stop() returns the manager is stopped and quiet, and every step
\* leaves it so until start() is called again, by the caller or through
\* the retry() that schedules it.
C3_StoppedUntilStart ==
    /\ [](last.op = "stop_done" => StoppedQuiet)
    /\ [][(StoppedQuiet /\ last'.op \notin {"start", "retry"})
           => StoppedQuiet']_vars

\* C4: at most one transport is open; a transport is opened only when none
\* is open.
C4_AtMostOneTransport ==
    /\ Cardinality(wsOpen) <= 1
    /\ wsOpen \subseteq {websocket}

\* C5: the subscriber list never holds a callback twice; subscribe(cb)
\* appends cb when it is absent and changes nothing when it is present;
\* unsubscribe(cb) removes cb, keeping the order of the others, when it is
\* present and changes nothing when it is absent.
C5_SubscribeUnsubscribeIdempotent ==
    /\ [](NoDuplicates(subscriptions))
    /\ [][/\ last'.op = "subscribe" =>
               subscriptions' =
                   IF \E i \in 1..Len(subscriptions) : subscriptions[i] = last'.arg
                   THEN subscriptions
                   ELSE subscriptions \o <<last'.arg>>
          /\ last'.op = "unsubscribe" =>
               subscriptions' =
                   SelectSeq(subscriptions, LAMBDA c : c # last'.arg)
          /\ last'.op \notin {"subscribe", "unsubscribe"} =>
               subscriptions' = subscriptions]_vars

\* subscribe(1) was called with 1 already subscribed (1 is followed by a
\* callback subscribed after it), and the list is unchanged
C5_Witness ==
    /\ last = Ev("subscribe", 1)
    /\ subscriptions = <<1, 2>>

\* the callbacks of s that are in the set m, in the order of s
Among(s, m) == SelectSeq(s, LAMBDA c : c \in m)

\* C6: when the dispatch of a message has completed, the callbacks that
\* were registered throughout it have each been invoked exactly once, in
\* registration order; while a dispatch is going on its task awaits a
\* callback (it does not receive the next message).
C6_EachSubscriberOnceInOrder ==
    /\ disp.phase = "complete" =>
           Among(disp.log, disp.must) = Among(subscriptions, disp.must)
    /\ disp.phase = "active" => tasks[disp.task].pc = "callback"

\* C7: a dispatch delivers the message to no callback twice, and when it
\* has completed it has delivered it to every callback that was subscribed
\* when it began and has not been unsubscribed since.
C7_NoSkipNoDoubleDelivery ==
    /\ NoDuplicates(disp.log)
    /\ disp.phase = "complete" => disp.must \subseteq Range(disp.log)

\* C8: stop() sleeps at most `timeout` times, and once called it returns.
C8_StopTerminates ==
    /\ [](stopper.pc = "poll" => stopper.elapsed < stopper.timeout)
    /\ (stopper.pc # "idle") ~> (stopper.pc = "idle")

\* the polling of stop() ended at the deadline with the transport still
\* open, and stop() went on to close it
C8_Witness ==
    /\ stopper.pc = "close"
    /\ stopper.timeout > 0
    /\ stopper.elapsed = stopper.timeout
    /\ stopper.h \in wsOpen

\* a step in which a task leaves running() through the end of its finally
\* block (lines 109-113)
LoopEnds(t) ==
    /\ tasks[t].pc \in {"connect", "receive", "ping", "unwind", "callback",
                       "closeF"}
    /\ ~(tasks[t].pc = "closeF" /\ tasks[t].cancel)
    /\ tasks'[t].pc = "none"

\* a step in which a task is cancelled inside the close of its finally block
\* (lines 109-113 are skipped)
LoopDropped(t) ==
    /\ tasks[t].pc = "closeF" /\ tasks[t].cancel
    /\ tasks'[t].pc = "none"

\* what C9 says of a step that ends the connection loop, with `after` the
\* state it leaves when the state was not Stopped
LoopEndsWell(after) ==
    \A t \in TaskIds :
        /\ LoopEnds(t) =>
               /\ websocket' = None
               /\ wsOpen' = {}
               /\ IF state # STATE_STOPPED
                  THEN /\ state' = after
                       /\ retry_timer' # None
                       /\ timers' = {[id |-> retry_timer', delay |-> 15]}
                  ELSE /\ state' = STATE_STOPPED
                       /\ timers' = timers
        /\ LoopDropped(t) =>
               /\ websocket' = None
               /\ \/ state' = STATE_STOPPED
                  \/ timers' # {}
                  \/ \E u \in TaskIds :
                         tasks'[u].pc # "none" /\ ~tasks'[u].cancel

\* C9: the loop ends with the transport closed and, unless the state was
\* Stopped, with exactly one retry scheduled; the state is then the one
\* that lines 111-112 leave (Stopped is set and retry() sets Starting).
C9_LoopEndClosesAndRetries == [][LoopEndsWell(STATE_STARTING)]_vars

FailureOps == {"connect_failed", "idle_exhausted", "ping_timeout",
               "recv_refused", "msg_closed", "msg_error", "cb_raise"}

\* C10: while the state is Starting or Running there is a connection task
\* or a pending retry timer; and after every failure of a manager that
\* stop() has not stopped a connection task gets to its connect, unless
\* stop() is called first.
C10_NoFailureIsTerminal ==
    /\ [](state \in {STATE_STARTING, STATE_RUNNING} =>
              (timers # {} \/ \E t \in TaskIds : Live(t)))
    /\ (last.op \in FailureOps /\ state # STATE_STOPPED) ~>
           \/ \E t \in TaskIds : tasks[t].pc = "connect" /\ Live(t)
           \/ last.op \in {"stop", "stop_done"}

\* after a failed connect and the retry it scheduled, the task started by
\* the timer is at its connect
C10_Witness ==
    /\ last.op = "task_start"
    /\ retry_timer # None
    /\ timers = {}
    /\ \E t \in TaskIds : tasks[t].pc = "connect" /\ Live(t)

MsgOps == {"msg", "msg_error"}
\* the binary frame of the message received last, if that was a frame
IsFrame(m) == Messages[m].type = "BINARY" /\ ~Messages[m].nodata

\* C11: a binary message shorter than 9 bytes, or without the delimiter 126
\* as its first or last byte, is dropped: no decoder runs, no callback is
\* invoked, no exception ends the loop, and a Running connection stays
\* Running with its task receiving the next message.
C11_InvalidFrameIsDropped ==
    [][(last'.op \in MsgOps /\ IsFrame(last'.arg)
          /\ (\/ Len(Messages[last'.arg].data) < 9
              \/ Messages[last'.arg].data[1] # 126
              \/ Messages[last'.arg].data[Len(Messages[last'.arg].data)] # 126))
        => /\ last'.op = "msg"
           /\ Processed[last'.arg].kind = "invalid"
           /\ disp'.phase = "idle" \/ disp' = disp
           /\ state = STATE_RUNNING
                => /\ UNCHANGED <<state, websocket, wsOpen, timers,
                                  retry_timer>>
                   /\ \A t \in TaskIds :
                          tasks[t].pc = "receive"
                              => tasks'[t].pc = "receive"]_vars

\* a frame of full length whose first byte is not 126 was received by a
\* Running connection with a subscriber, and the connection task is
\* receiving again
C11_Witness ==
    /\ last.op = "msg"
    /\ IsFrame(last.arg)
    /\ Len(Messages[last.arg].data) >= 9
    /\ Messages[last.arg].data[1] # 126
    /\ state = STATE_RUNNING
    /\ subscriptions # <<>>
    /\ disp.phase = "idle"
    /\ \E t \in TaskIds : tasks[t].pc = "receive" /\ Live(t)

\* the verdict of lines 184-187 on each message that passes the framing check
CrcVerdict ==
    [m \in MessageIds |->
        IF IsFrame(m) /\ ~FramingFails(Messages[m].data)
        THEN IF CrcMismatch(Stripped(Messages[m].data)) THEN "mismatch"
             ELSE "match"
        ELSE "none"]
\* what the decoders return for the token stream of each such message
Decoded ==
    [m \in MessageIds |->
        IF CrcVerdict[m] = "none" THEN NoReading
        ELSE RegistryDecode(TokenStream(Stripped(Messages[m].data)))]
\* the frame d with the trailer that matches its checksum
WithMatchingTrailer(d) ==
    LET body == SubSeq(d, 2, Len(d) - 3)
        c == BitXor(Crc(body), CrcInit)
    IN <<d[1]>> \o body \o <<c % 256, c \div 256>> \o <<d[Len(d)]>>
\* what the decoders return for each such message when its trailer is
\* replaced by the matching one
DecodedWithMatchingTrailer ==
    [m \in MessageIds |->
        IF CrcVerdict[m] = "none" THEN NoReading
        ELSE RegistryDecode(TokenStream(Stripped(
                 WithMatchingTrailer(Messages[m].data))))]

\* the frame of message m passes the framing check and no decoder returns
\* a reading for it
Undecodable(m) ==
    /\ CrcVerdict[m] # "none"
    /\ Decoded[m] \in {NoReading, RaisesIndexError}

\* C12: a structurally valid frame that no decoder can decode raises no
\* exception and causes no reconnect, and every subscriber is invoked once
\* with the reading None.
C12_UndecodableFrameGivesNone ==
    /\ [][(last'.op \in MsgOps /\ Undecodable(last'.arg))
           => /\ last'.op = "msg"
              /\ UNCHANGED <<state, websocket, wsOpen, timers, retry_timer>>
              /\ subscriptions # <<>> =>
                     /\ disp'.phase \in {"active", "complete"}
                     /\ disp'.val = NoReading]_vars
    /\ []((disp.phase = "complete" /\ disp.val = NoReading) =>
              Among(disp.log, disp.must) = Among(subscriptions, disp.must))

\* the record-type tag of a token stream: txt_buf[2:4] of decode_kaifa
TagOf(buf) == Slice(buf, 62, 64)
Fields01 == {"time_stamp", "Effect"}
Fields09 == {"time_stamp", "Version identifier", "Meter-ID", "Meter type",
             "Effect"}
Fields0E == Fields09 \cup {"Cumulative_hourly_active_import_energy",
                           "Cumulative_hourly_active_export_energy",
                           "Cumulative_hourly_reactive_import_energy",
                           "Cumulative_hourly_reactive_export_energy"}

\* C13: what the decoders return for a token stream is None or a reading
\* whose fields are exactly those of its record type: two for 01, five for
\* 09, nine for 0E; for every other tag it is None.
C13_FieldsFixedByRecordType ==
    proc.stage = "decoded" =>
        \/ proc.decoded_data = NoReading
        \/ /\ TagOf(proc.buf) = <<"0", "1">>
           /\ DOMAIN proc.decoded_data = Fields01
        \/ /\ TagOf(proc.buf) = <<"0", "9">>
           /\ DOMAIN proc.decoded_data = Fields09
        \/ /\ TagOf(proc.buf) = <<"0", "E">>
           /\ DOMAIN proc.decoded_data = Fields0E

\* a frame of type 0E was decoded to a reading of nine fields
C13_Witness ==
    /\ proc.stage = "decoded"
    /\ TagOf(proc.buf) = <<"0", "E">>
    /\ proc.decoded_data # NoReading
    /\ Cardinality(DOMAIN proc.decoded_data) = 9

\* C14: a receive timeout adds one to the idle counter and is followed by a
\* ping while the counter is at most 10; the timeout that takes it past 10
\* (the 11th in a row) ends the loop, and so does a ping without answer; an
\* answered ping leaves the counter as it is; the counter goes back to 0
\* only when a message is received.
C14_IdleCounter ==
    [][\A t \in TaskIds :
          (tasks'[t] # tasks[t]) =>
              /\ last'.op = "recv_timeout" =>
                     /\ tasks[t].k < 10
                     /\ tasks'[t].pc = "ping" => tasks'[t].k = tasks[t].k + 1
              /\ last'.op = "idle_exhausted" =>
                     /\ tasks[t].k = 10
                     /\ tasks'[t].pc \in {"closeF", "none"}
              /\ last'.op = "ping_timeout" => tasks'[t].pc \in {"closeF", "none"}
              /\ last'.op = "pong" =>
                     (tasks'[t].pc = "receive" => tasks'[t].k = tasks[t].k)
              /\ (last'.op = "msg" /\ tasks'[t].pc \in {"receive", "callback"})
                     => tasks'[t].k = 0
              /\ (/\ tasks[t].pc \in {"receive", "ping"}
                  /\ tasks'[t].pc \in {"receive", "ping", "callback"}
                  /\ tasks'[t].k < tasks[t].k)
                     => last'.op = "msg"]_vars

\* the 11th receive timeout in a row ended the loop
C14_Witness ==
    /\ last.op = "idle_exhausted"
    /\ ~is_running
    /\ \E t \in TaskIds : tasks[t].pc = "closeF"

\* C15: a step that schedules the retry timer leaves the state Stopped, and
\* while that timer is pending the state stays Stopped unless start() is
\* called.
C15_StoppedWhileRetryPending ==
    /\ [][(timers = {} /\ timers' # {}) => state' = STATE_STOPPED]_vars
    /\ [][(/\ timers # {} /\ timers' = timers
           /\ state = STATE_STOPPED
           /\ last'.op # "start")
          => state' = STATE_STOPPED]_vars

Connecting(t) ==
    Live(t) /\ tasks[t].pc \in {"connect", "receive", "ping", "callback"}

\* C16: a call of start() in a state other than Running cancels the task of
\* _client_task, sets the state to Starting and creates exactly one task;
\* at most one task is connecting or receiving; a cancelled task that has a
\* successor leaves the state and the transport as they are when it gets
\* its CancelledError.
C16_StartReplacesTheTask ==
    /\ [][(last'.op \in {"start", "timer"} /\ state # STATE_RUNNING)
           => /\ state' = STATE_STARTING
              /\ client_task' # None
              /\ tasks'[client_task'].pc = "new"
              /\ Cardinality({t \in TaskIds : tasks'[t].pc = "new"}) = 1
              /\ \A t \in TaskIds :
                     (t = client_task /\ tasks[t].pc \notin {"none", "new"})
                     => tasks'[t].cancel]_vars
    /\ [](Cardinality({t \in TaskIds : Connecting(t)}) <= 1)
    /\ [][(last'.op = "cancelled" /\ client_task # None)
           => UNCHANGED <<state, websocket, wsOpen>>]_vars

\* C17: a frame that passes the framing check and whose checksum does not
\* match is decoded and handed to the subscribers exactly as the same frame
\* with the matching trailer is: no exception, and the dispatch starts with
\* the reading that the decoders return for the frame with the matching
\* trailer.
C17_CrcMismatchIsNotDropped ==
    [][(last'.op \in MsgOps /\ CrcVerdict[last'.arg] = "mismatch")
       => /\ Decoded[last'.arg] # RaisesIndexError
          /\ last'.op = "msg"
          /\ Decoded[last'.arg] = DecodedWithMatchingTrailer[last'.arg]
          /\ subscriptions # <<>> =>
                 /\ disp'.phase \in {"active", "complete"}
                 /\ disp'.val = Decoded[last'.arg]
                 /\ disp'.log # <<>>
                 /\ disp'.log[1] = subscriptions[1]
          /\ subscriptions = <<>> => disp'.phase = "complete"]_vars

Tokenized == proc.stage \in {"tokens", "decoded", "raised"}
IsUpperHex(c) == \E i \in 1..16 : HexChars[i] = c

\* C18 as stated: the token stream is the uppercase hexadecimal form of the
\* frame without its delimiters and without the two bytes of the checksum:
\* 2 * (n - 4) digits for n bytes.
C18_TokensWithoutTrailer ==
    Tokenized =>
        /\ Len(proc.buf) = 2 * (Len(proc.frame) - 4)
        /\ \A i \in 1..(Len(proc.frame) - 4) :
               /\ IsUpperHex(proc.buf[2 * i - 1]) /\ IsUpperHex(proc.buf[2 * i])
               /\ HexVal(proc.buf[2 * i - 1]) * 16 + HexVal(proc.buf[2 * i])
                  = proc.frame[i + 1]

\* C18, amended: the token stream is the uppercase hexadecimal form of the
\* frame without its delimiters, the two bytes of the checksum included:
\* 2 * (n - 2) digits for n bytes; a reading is returned only when the
\* length field times two is that length.
C18_TokensWithTrailer ==
    Tokenized =>
        /\ Len(proc.buf) = 2 * (Len(proc.frame) - 2)
        /\ \A i \in 1..(Len(proc.frame) - 2) :
               /\ IsUpperHex(proc.buf[2 * i - 1]) /\ IsUpperHex(proc.buf[2 * i])
               /\ HexVal(proc.buf[2 * i - 1]) * 16 + HexVal(proc.buf[2 * i])
                  = proc.frame[i + 1]
        /\ (proc.stage = "decoded" /\ proc.decoded_data # NoReading) =>
               proc.frame[3] * 2 = Len(proc.buf)

\* a frame of 41 bytes was decoded to a reading from 78 digits
C18_Witness ==
    /\ proc.stage = "decoded"
    /\ proc.decoded_data # NoReading
    /\ Len(proc.frame) = 41
    /\ Len(proc.buf) = 78

\* C19: at most one retry timer is pending, and none is pending while a
\* task is connecting or receiving.
C19_NoTimerBesideConnection ==
    /\ Cardinality(timers) <= 1
    /\ timers # {} => \A t \in TaskIds : ~Connecting(t)

\* C20: is_running is true only while the state is Running.
C20_IsRunningOnlyWhenRunning ==
    is_running => state = STATE_RUNNING
====
